---- MODULE Spec2Model ----
(***************************************************************************)
(* Bayesian Personalized Ranking matrix factorization, as written in      *)
(* notebooks/6_e_cf_mf_ranking_pred.ipynb: the per-user positive/negative *)
(* item index, the SGD training loop with negative sampling, the          *)
(* per-epoch diagnostic loss, get_prediction and get_recommendations, and *)
(* the Precision@N evaluation.                                            *)
(*                                                                         *)
(* Real numbers are fixed-point integers in units of 1/Scale; products    *)
(* and quotients round to nearest, symmetrically in the sign (as IEEE     *)
(* arithmetic does).                                                      *)
(***************************************************************************)
EXTENDS Integers, Sequences, FiniteSets, TLC

VARIABLES
    data_users,      \* data.users: the user catalog
    data_items,      \* data.items: the item catalog
    ratings,         \* ratings_arr: the training table, a sequence of <<user, item>>
    user_factors,    \* row index (0-based) -> vector of length d
    item_factors,    \* row index (0-based) -> vector of length d
    user_pos_items,  \* dict user -> set of positive items
    user_neg_items,  \* dict user -> set of remaining items
    epochs,          \* configuration
    learning_rate,
    l2_decay,        \* [user |-> , pos |-> , neg |-> ]
    verbose,
    pc,              \* position in the notebook
    epoch,           \* outer loop counter
    step,            \* inner loop counter (the "_" of the for loop)
    random_index,    \* last index drawn (None = -1)
    user,            \* last triple drawn (None = 0)
    pos_item,
    neg_item,
    user_grad,       \* last gradients returned (None = << >>)
    pos_item_grad,
    neg_item_grad,
    neg_items,       \* print_update: the negatives of its last pass (None = << >>)
    loss_trace,
    err,             \* the exception that ended the run ("none" while running)
    ret,             \* result of the last direct function call
    redrawn,         \* history: some index was drawn twice in the current epoch
    N,               \* evaluation: length of the lists (None = -1)
    relevant_items,  \* evaluation: dict user -> set of relevant items
    prec_at_N,       \* evaluation: dict user -> Precision@N (None = -1)
    mean_prec        \* evaluation: the mean Precision@N

vars == <<data_users, data_items, ratings, user_factors, item_factors,
          user_pos_items, user_neg_items, epochs, learning_rate, l2_decay,
          verbose, pc, epoch, step, random_index, user, pos_item, neg_item,
          user_grad, pos_item_grad, neg_item_grad, neg_items, loss_trace, err,
          ret, redrawn, N, relevant_items, prec_at_N, mean_prec>>

\* the globals of the evaluation cells
evalVars == <<N, relevant_items, prec_at_N, mean_prec>>

(***************************************************************************)
(* Bounds of the model.                                                    *)
(***************************************************************************)
NUsers == 2
NItems == 2
MaxRatings == 2
MaxEpochs == 2
MaxSteps == 4
MaxN == 3
d == 1
SeriesTerms == 6

(***************************************************************************)
(* Program constants, in fixed point where they are reals.                 *)
(***************************************************************************)
Scale == 10 ^ 4
seed == 42
DefaultLearningRate == 500
WindowSize == 1000

(***************************************************************************)
(* Fixed-point arithmetic.                                                 *)
(***************************************************************************)
Abs(a) == IF a >= 0 THEN a ELSE -a

\* a / b rounded to nearest, b > 0; RDiv(-a, b) = -RDiv(a, b)
RDiv(a, b) ==
    IF a >= 0 THEN (2 * a + b) \div (2 * b)
    ELSE -((2 * (-a) + b) \div (2 * b))

Mul(a, b) == RDiv(a * b, Scale)

RECURSIVE ExpTerm(_, _)
ExpTerm(y, k) == IF k = 0 THEN Scale ELSE RDiv(ExpTerm(y, k - 1) * y, Scale * k)

RECURSIVE ExpSum(_, _)
ExpSum(y, k) == IF k = 0 THEN ExpTerm(y, 0) ELSE ExpSum(y, k - 1) + ExpTerm(y, k)

\* np.exp
Exp(y) == ExpSum(y, SeriesTerms)

sigmoid(x) == RDiv(Scale * Scale, Scale + Exp(-x))

RECURSIVE SumTo(_, _)
SumTo(v, k) == IF k = 0 THEN 0 ELSE SumTo(v, k - 1) + v[k]

\* np.sum(a * b) of two vectors
Dot(a, b) == SumTo([f \in 1..Len(a) |-> Mul(a[f], b[f])], Len(a))

VecSub(a, b) == [f \in 1..Len(a) |-> a[f] - b[f]]
VecAdd(a, b) == [f \in 1..Len(a) |-> a[f] + b[f]]
VecScale(c, a) == [f \in 1..Len(a) |-> Mul(c, a[f])]

\* the vector of dimension d with v in every place
Const(v) == [f \in 1..d |-> v]

RECURSIVE Pow(_, _)
Pow(z, k) == IF k = 0 THEN Scale ELSE Mul(Pow(z, k - 1), z)

RECURSIVE AtanhSum(_, _)
AtanhSum(z, k) ==
    IF k < 0 THEN 0
    ELSE AtanhSum(z, k - 1) + RDiv(Pow(z, 2 * k + 1), 2 * k + 1)

\* np.log of s in (0, 1]: 2 * atanh((s - 1) / (s + 1))
Log(s) == 2 * AtanhSum(RDiv((s - Scale) * Scale, s + Scale), SeriesTerms)

(***************************************************************************)
(* The seeded generator np.random.RandomState(seed): a deterministic      *)
(* stream of draws in [0, 1), here a linear congruential stand-in.        *)
(***************************************************************************)
RECURSIVE RandState(_, _)
RandState(s, k) == IF k = 0 THEN s % 101 ELSE (RandState(s, k - 1) * 37 + 11) % 101

\* the k-th draw of random_state.rand, k = 1, 2, ...
Rand(s, k) == (RandState(s, k) * Scale) \div 101

\* (random_state.rand(rows, d) - 0.5) / d, continuing the stream after `skip` draws
InitFactors(s, rows, skip) ==
    [r \in 0..(rows - 1) |->
        [f \in 1..d |-> RDiv(Rand(s, skip + r * d + f) - Scale \div 2, d)]]

(***************************************************************************)
(* Inputs: the catalogs and the training table.                            *)
(***************************************************************************)
Users == 1..NUsers
Items == 1..NItems

\* the pairs of Users x Items, numbered 0 .. NUsers * NItems - 1
PairOf(k) == <<(k \div NItems) + 1, (k % NItems) + 1>>

\* tables of 1..MaxRatings distinct (user, item) pairs
Tables ==
    {[k \in 1..Len(q) |-> PairOf(q[k])] :
        q \in {t \in UNION {[1..len -> 0..(NUsers * NItems - 1)] : len \in 1..MaxRatings} :
                  \A a, b \in 1..Len(t) : a < b => t[a] < t[b]}}

NoCall == [fn |-> "none", user |-> 0, raised |-> "none", value |-> 0]
NoMean == [state |-> "None", value |-> 0]

ZeroDecay == [user |-> 0, pos |-> 0, neg |-> 0]
SomeDecay == [user |-> 100, pos |-> 200, neg |-> 300]

\* what numpy raises when np.random.choice is given an empty array; the
\* design calls this condition EmptyNegativePoolError
EmptyNegativePoolError == "ValueError: 'a' cannot be empty unless no samples are taken"

m == Cardinality(data_users)
n == Cardinality(data_items)
n_ratings == Len(ratings)

InitCommon ==
    /\ user_pos_items = << >>
    /\ user_neg_items = << >>
    /\ pc = "index"
    /\ epoch = 0
    /\ step = 0
    /\ random_index = -1
    /\ user = 0
    /\ pos_item = 0
    /\ neg_item = 0
    /\ user_grad = << >>
    /\ pos_item_grad = << >>
    /\ neg_item_grad = << >>
    /\ neg_items = << >>
    /\ loss_trace = << >>
    /\ err = "none"
    /\ ret = NoCall
    /\ redrawn = FALSE
    /\ N = -1
    /\ relevant_items = << >>
    /\ prec_at_N = << >>
    /\ mean_prec = NoMean

Init ==
    /\ data_users = Users
    /\ data_items = Items
    /\ ratings \in Tables
    /\ user_factors = InitFactors(seed, NUsers, 0)
    /\ item_factors = InitFactors(seed, NItems, NUsers * d)
    /\ epochs \in {e \in 1..MaxEpochs : e * Len(ratings) <= MaxSteps}
    /\ learning_rate = DefaultLearningRate
    /\ l2_decay = ZeroDecay
    /\ verbose = TRUE
    /\ InitCommon

(***************************************************************************)
(* The feedback index: user_pos_items / user_neg_items.                    *)
(***************************************************************************)
\* grouped.groups.keys()
groups == {ratings[k][1] : k \in 1..Len(ratings)}

\* grouped.get_group(user).item.values
get_group(u) == {ratings[k][2] : k \in {j \in 1..Len(ratings) : ratings[j][1] = u}}

PosItemsOf(u) == IF u \in groups THEN get_group(u) ELSE {}

\* np.setdiff1d
setdiff1d_nodiff(a, b) == a
setdiff1d(a, b) == a \ b

\* the users the index is built for: "for user in data.users"
IndexedUsers_groups == groups
IndexedUsers == data_users

\* where the script goes once the loops over epochs and steps are entered
LoopEntry(e) == IF e < epochs THEN "train" ELSE "trained"

BuildIndex ==
    /\ pc = "index"
    /\ user_pos_items' = [u \in IndexedUsers |-> PosItemsOf(u)]
    /\ user_neg_items' = [u \in IndexedUsers |-> setdiff1d(data_items, PosItemsOf(u))]
    /\ pc' = LoopEntry(0)
    /\ UNCHANGED <<data_users, data_items, ratings, user_factors, item_factors,
                   epochs, learning_rate, l2_decay, verbose, epoch, step,
                   random_index, user, pos_item, neg_item, user_grad,
                   pos_item_grad, neg_item_grad, loss_trace, err, ret, redrawn>>
    /\ UNCHANGED neg_items
    /\ UNCHANGED evalVars

(***************************************************************************)
(* Training.                                                               *)
(***************************************************************************)
\* np.random.choice(user_neg_items[user]): the items it can return; none when
\* the array is empty (numpy raises ValueError)
negative_sampling_positives(u) == user_pos_items[u]
negative_sampling_catalog(u) == data_items
negative_sampling_fallback(u) ==
    IF user_neg_items[u] = {} THEN data_items ELSE user_neg_items[u]
negative_sampling(u) == user_neg_items[u]

\* user_neg_items after np.random.choice returned item j for user u: choice
\* copies the element, the array stays
NegativesAfterSampling_pop(u, j) ==
    [user_neg_items EXCEPT ![u] = @ \ {j}]
NegativesAfterSampling(u, j) == user_neg_items

\* np.random.randint(n_ratings): the indices it can return
randint_pass(high) == {step % high}
randint(high) == 0..(high - 1)

\* numpy row indexing a[idx]: a negative index counts from the end
RowIndex(idx, rows) == IF idx < 0 THEN idx + rows ELSE idx
InBounds(idx, rows) == RowIndex(idx, rows) \in 0..(rows - 1)

compute_gradients_samesign(user_embed, pos_item_embed, neg_item_embed, decay) ==
    LET x == Dot(user_embed, pos_item_embed) - Dot(user_embed, neg_item_embed)
        g == sigmoid(x) - Scale
    IN  [user |-> VecAdd(VecScale(g, VecSub(pos_item_embed, neg_item_embed)),
                         VecScale(decay.user, user_embed)),
         pos  |-> VecAdd(VecScale(g, user_embed),
                         VecScale(decay.pos, pos_item_embed)),
         neg  |-> VecAdd(VecScale(g, user_embed),
                         VecScale(decay.neg, neg_item_embed))]

compute_gradients_scalar(user_embed, pos_item_embed, neg_item_embed, decay) ==
    LET x == Dot(user_embed, pos_item_embed) - Dot(user_embed, neg_item_embed)
        g == sigmoid(x) - Scale
    IN  [user |-> <<g>>, pos |-> << >>, neg |-> << >>]

\* the BPR gradients of one triple: g = sigmoid(x) - 1, x = w.h_i - w.h_j
compute_gradients(user_embed, pos_item_embed, neg_item_embed, decay) ==
    LET x == Dot(user_embed, pos_item_embed) - Dot(user_embed, neg_item_embed)
        g == sigmoid(x) - Scale
    IN  [user |-> VecAdd(VecScale(g, VecSub(pos_item_embed, neg_item_embed)),
                         VecScale(decay.user, user_embed)),
         pos  |-> VecAdd(VecScale(g, user_embed),
                         VecScale(decay.pos, pos_item_embed)),
         neg  |-> VecAdd(VecScale(-g, user_embed),
                         VecScale(decay.neg, neg_item_embed))]

\* row -= learning_rate * grad
SgdUpdate_plus(row, grad) == VecAdd(row, VecScale(learning_rate, grad))
SgdUpdate(row, grad) == VecSub(row, VecScale(learning_rate, grad))

\* user, pos_item = tuple(ratings_arr[random_index])
DrawnPair_swapped(i) == <<ratings[i + 1][2], ratings[i + 1][1]>>
DrawnPair(i) == ratings[i + 1]

\* one pass of lines 296-310: draw the pair, draw the negative, fetch the
\* three rows, compute the gradients
\* the loop is at line 296 and index i is one np.random.randint can return
CanDraw(i) ==
    /\ pc = "train"
    /\ i \in randint(n_ratings)

SGDDraw(i) ==
    /\ CanDraw(i)
    /\ LET u == DrawnPair(i)[1]
           p == DrawnPair(i)[2]
       IN  /\ random_index' = i
           /\ user' = u
           /\ pos_item' = p
           /\ redrawn' = (redrawn \/ (step > 0 /\ i = random_index))
           /\ IF u \notin DOMAIN user_neg_items
              THEN /\ pc' = "error"
                   /\ err' = "KeyError"
                   /\ UNCHANGED <<neg_item, user_grad, pos_item_grad, neg_item_grad>>
              ELSE IF negative_sampling(u) = {}
              THEN /\ pc' = "error"
                   /\ err' = EmptyNegativePoolError
                   /\ UNCHANGED <<neg_item, user_grad, pos_item_grad, neg_item_grad>>
              ELSE \E j \in negative_sampling(u) :
                   /\ neg_item' = j
                   /\ IF /\ InBounds(u - 1, m)
                         /\ InBounds(p - 1, n)
                         /\ InBounds(j - 1, n)
                      THEN LET grads == compute_gradients(
                                            user_factors[RowIndex(u - 1, m)],
                                            item_factors[RowIndex(p - 1, n)],
                                            item_factors[RowIndex(j - 1, n)],
                                            l2_decay)
                           IN  /\ user_grad' = grads.user
                               /\ pos_item_grad' = grads.pos
                               /\ neg_item_grad' = grads.neg
                               /\ pc' = "update"
                               /\ err' = err
                      ELSE /\ pc' = "error"
                           /\ err' = "IndexError"
                           /\ UNCHANGED <<user_grad, pos_item_grad, neg_item_grad>>
    /\ user_neg_items' =
           IF err' = err THEN NegativesAfterSampling(user', neg_item')
           ELSE user_neg_items
    /\ UNCHANGED <<data_users, data_items, ratings, user_factors, item_factors,
                   user_pos_items, epochs, learning_rate,
                   l2_decay, verbose, epoch, step, loss_trace, ret>>
    /\ UNCHANGED neg_items
    /\ UNCHANGED evalVars

\* the three in-place updates of lines 315-317, in their order
UpdatedUserFactors_lost == user_factors
UpdatedUserFactors ==
    [user_factors EXCEPT ![RowIndex(user - 1, m)] = SgdUpdate(@, user_grad)]

UpdatedItemFactors_all ==
    [r \in DOMAIN item_factors |->
        IF r = RowIndex(neg_item - 1, n)
        THEN SgdUpdate(item_factors[r], neg_item_grad)
        ELSE SgdUpdate(item_factors[r], pos_item_grad)]
UpdatedItemFactors ==
    LET afterPos == [item_factors EXCEPT
                        ![RowIndex(pos_item - 1, n)] = SgdUpdate(@, pos_item_grad)]
    IN  [afterPos EXCEPT ![RowIndex(neg_item - 1, n)] = SgdUpdate(@, neg_item_grad)]

SGDUpdate ==
    /\ pc = "update"
    /\ user_factors' = UpdatedUserFactors
    /\ item_factors' = UpdatedItemFactors
    /\ IF step + 1 < n_ratings
       THEN /\ step' = step + 1
            /\ pc' = "train"
            /\ UNCHANGED <<epoch, redrawn>>
       ELSE IF verbose
       THEN /\ step' = step + 1
            /\ pc' = "diag"
            /\ UNCHANGED <<epoch, redrawn>>
       ELSE /\ step' = 0
            /\ epoch' = epoch + 1
            /\ redrawn' = FALSE
            /\ pc' = LoopEntry(epoch + 1)
    /\ UNCHANGED <<data_users, data_items, ratings, user_pos_items,
                   user_neg_items, epochs, learning_rate, l2_decay, verbose,
                   random_index, user, pos_item, neg_item, user_grad,
                   pos_item_grad, neg_item_grad, loss_trace, err, ret>>
    /\ UNCHANGED neg_items
    /\ UNCHANGED evalVars

\* samples = ratings_arr[-1000:]
LastRows(table, k) ==
    IF Len(table) <= k THEN table ELSE SubSeq(table, Len(table) - k + 1, Len(table))

samples == LastRows(ratings, WindowSize)

\* the mean ranking loss of the window for one choice of negatives
MeanRankingLoss(rows, negs) ==
    LET pred(k) ==
            LET ue == user_factors[RowIndex(rows[k][1] - 1, m)]
                pe == item_factors[RowIndex(rows[k][2] - 1, n)]
                ne == item_factors[RowIndex(negs[k] - 1, n)]
            IN  Dot(ue, pe) - Dot(ue, ne)
        logs == [k \in 1..Len(rows) |-> Log(sigmoid(pred(k)))]
    IN  -RDiv(SumTo(logs, Len(rows)), Len(rows))

\* loss_trace.append(loss)
AppendLoss_replace(trace, loss) == <<loss>>
AppendLoss(trace, loss) == Append(trace, loss)

\* print_update(epoch, samples) and loss_trace.append(loss), lines 319-322
PrintUpdate ==
    /\ pc = "diag"
    /\ IF \E k \in 1..Len(samples) : negative_sampling(samples[k][1]) = {}
       THEN /\ pc' = "error"
            /\ err' = EmptyNegativePoolError
            /\ UNCHANGED <<epoch, step, neg_items, loss_trace, redrawn>>
       ELSE /\ \E negs \in [1..Len(samples) -> data_items] :
                  /\ \A k \in 1..Len(samples) :
                        negs[k] \in negative_sampling(samples[k][1])
                  /\ neg_items' = negs
                  /\ loss_trace' = AppendLoss(loss_trace, MeanRankingLoss(samples, negs))
            /\ epoch' = epoch + 1
            /\ step' = 0
            /\ redrawn' = FALSE
            /\ pc' = LoopEntry(epoch + 1)
            /\ err' = err
    /\ UNCHANGED <<data_users, data_items, ratings, user_factors, item_factors,
                   user_pos_items, user_neg_items, epochs, learning_rate,
                   l2_decay, verbose, random_index, user, pos_item, neg_item,
                   user_grad, pos_item_grad, neg_item_grad, ret>>
    /\ UNCHANGED evalVars

Next ==
    \/ BuildIndex
    \/ \E i \in 0..(MaxRatings - 1) : SGDDraw(i)
    \/ SGDUpdate
    \/ PrintUpdate

Spec == Init /\ [][Next]_vars

(***************************************************************************)
(* One training run from chosen factor values: two users, two items, each *)
(* user with one positive item; the factor rows, the learning rate and    *)
(* the decay are drawn.                                                    *)
(***************************************************************************)
UserVals == {1000, -2000}
ItemVals == {1000, 3000, -4000}
LearningRates == {DefaultLearningRate, 1000}

InitEngine ==
    /\ data_users = {1, 2}
    /\ data_items = {1, 2}
    /\ ratings = << <<1, 1>>, <<2, 2>> >>
    /\ user_factors \in [0..1 -> [1..d -> UserVals]]
    /\ item_factors \in [0..1 -> [1..d -> ItemVals]]
    /\ epochs = 1
    /\ learning_rate \in LearningRates
    /\ l2_decay \in {ZeroDecay, SomeDecay}
    /\ verbose = TRUE
    /\ InitCommon

SpecEngine == InitEngine /\ [][Next]_vars

(***************************************************************************)
(* Training runs over the configuration cell: the number of epochs, the   *)
(* learning rate and the verbose switch are drawn; every user of the      *)
(* table has the item of their own number as the only positive.           *)
(***************************************************************************)
DiagonalTables == {t \in Tables : \A k \in 1..Len(t) : t[k][1] = t[k][2]}

\* the configuration cell takes any number: the learning rates tried, with
\* zero and a negative one
ConfigLearningRates == LearningRates \cup {0, -DefaultLearningRate}

InitConfig ==
    /\ data_users = Users
    /\ data_items = Items
    /\ ratings \in DiagonalTables
    /\ user_factors = InitFactors(seed, NUsers, 0)
    /\ item_factors = InitFactors(seed, NItems, NUsers * d)
    /\ epochs \in {e \in 0..MaxEpochs : e * Len(ratings) <= MaxSteps}
    /\ learning_rate \in ConfigLearningRates
    /\ l2_decay = ZeroDecay
    /\ verbose \in BOOLEAN
    /\ InitCommon

SpecConfig == InitConfig /\ [][Next]_vars

(***************************************************************************)
(* Training runs over a catalog with one item more than the users, so     *)
(* that a step leaves at least one item untouched.                         *)
(***************************************************************************)
FrameItems == 1..(NItems + 1)

InitFrame ==
    /\ data_users = Users
    /\ data_items = FrameItems
    /\ ratings \in DiagonalTables
    /\ user_factors = InitFactors(seed, NUsers, 0)
    /\ item_factors = InitFactors(seed, NItems + 1, NUsers * d)
    /\ epochs = 1
    /\ learning_rate = DefaultLearningRate
    /\ l2_decay = ZeroDecay
    /\ verbose = TRUE
    /\ InitCommon

SpecFrame == InitFrame /\ [][Next]_vars

\* tables in which user 1 has rated the whole catalog and user 2 one item,
\* in every order of the rows
WindowTables ==
    {[k \in 1..Len(q) |-> PairOf(q[k])] :
        q \in {t \in [1..(NItems + 1) -> 0..(2 * NItems - 1)] :
                  /\ \A a, b \in 1..Len(t) : a # b => t[a] # t[b]
                  /\ \A k \in 0..(NItems - 1) : \E a \in 1..Len(t) : t[a] = k}}

\* two epochs over such a table, so that an epoch remains after the first
\* diagnostic
InitWindow ==
    /\ data_users = Users
    /\ data_items = Items
    /\ ratings \in WindowTables
    /\ user_factors = InitFactors(seed, NUsers, 0)
    /\ item_factors = InitFactors(seed, NItems, NUsers * d)
    /\ epochs = 2
    /\ learning_rate = DefaultLearningRate
    /\ l2_decay = ZeroDecay
    /\ verbose \in BOOLEAN
    /\ InitCommon

NextWindow ==
    \/ BuildIndex
    \/ \E i \in 0..NItems : SGDDraw(i)
    \/ SGDUpdate
    \/ PrintUpdate

SpecWindow == InitWindow /\ [][NextWindow]_vars

(***************************************************************************)
(* Direct calls of the notebook's functions, between the cell that builds  *)
(* the index and the training cell.                                        *)
(***************************************************************************)
\* the users a call is tried with: the catalog and the identifiers next to it
\* on either side
CallUsers == Users \cup {0, NUsers + 1}

CallNegativeSampling(u) ==
    /\ pc = "train"
    /\ random_index = -1
    /\ IF u \notin DOMAIN user_neg_items
       THEN ret' = [fn |-> "negative_sampling", user |-> u,
                    raised |-> "KeyError", value |-> 0]
       ELSE IF negative_sampling(u) = {}
       THEN ret' = [fn |-> "negative_sampling", user |-> u,
                    raised |-> EmptyNegativePoolError, value |-> 0]
       ELSE \E j \in negative_sampling(u) :
                ret' = [fn |-> "negative_sampling", user |-> u,
                        raised |-> "none", value |-> j]
    /\ UNCHANGED <<data_users, data_items, ratings, user_factors, item_factors,
                   user_pos_items, user_neg_items, epochs, learning_rate,
                   l2_decay, verbose, pc, epoch, step, random_index, user,
                   pos_item, neg_item, user_grad, pos_item_grad, neg_item_grad,
                   loss_trace, err, redrawn>>
    /\ UNCHANGED neg_items
    /\ UNCHANGED evalVars

NextCalls ==
    \/ BuildIndex
    \/ \E u \in CallUsers : CallNegativeSampling(u)

SpecCalls == Init /\ [][NextCalls]_vars

(***************************************************************************)
(* Scoring and recommendations: get_prediction and get_recommendations.    *)
(* An array is a sequence; a dict is the sequence of its <<key, value>>    *)
(* pairs in insertion order.                                               *)
(***************************************************************************)
\* the array with every element computed
Array(a) == SubSeq(a, 1, Len(a))

\* the elements of a set of integers in ascending order (np.setdiff1d and the
\* catalog arrays are sorted)
SortedSeq(S) ==
    Array([r \in 1..Cardinality(S) |->
              CHOOSE x \in S : Cardinality({y \in S : y < x}) = r - 1])

\* a[::-1]
Reversed(a) == Array([k \in 1..Len(a) |-> a[Len(a) + 1 - k]])

\* np.argsort(preds): the positions in ascending order of their value; numpy
\* sorts the short arrays of this model by insertion, which leaves equal
\* values in position order
argsort(preds) ==
    LET before(j, k) == preds[j] < preds[k] \/ (preds[j] = preds[k] /\ j < k)
        rank(k) == Cardinality({j \in 1..Len(preds) : before(j, k)})
    IN  Array([r \in 1..Len(preds) |->
                  CHOOSE k \in 1..Len(preds) : rank(k) = r - 1])

\* np.argsort(preds)[::-1]
sorting_ascending(preds) == argsort(preds)
sorting(preds) == Reversed(argsort(preds))

\* the dict built from a sequence of <<key, value>> pairs: a key stays where it
\* was first inserted and holds the value inserted last
FirstInsertions(pairs) ==
    SortedSeq({k \in 1..Len(pairs) :
                  \A j \in 1..(k - 1) : pairs[j][1] # pairs[k][1]})

LastInsertion(pairs, key) ==
    CHOOSE k \in 1..Len(pairs) :
        /\ pairs[k][1] = key
        /\ \A j \in (k + 1)..Len(pairs) : pairs[j][1] # key

DictEntries(pairs, order) ==
    Array([r \in 1..Len(order) |->
              <<pairs[order[r]][1],
                pairs[LastInsertion(pairs, pairs[order[r]][1])][2]>>])

DictOf(pairs) == DictEntries(pairs, FirstInsertions(pairs))

\* the items argument of get_prediction: None, or an array of items
NoItems == [given |-> FALSE, arr |-> << >>]
TheItems(arr) == [given |-> TRUE, arr |-> arr]

\* lines 362-368: the items scored; the caller's, or when the caller names
\* none the user's negatives or the catalog
CandidateItems_swapped(u, items, remove_known_pos) ==
    IF items.given THEN items.arr
    ELSE IF remove_known_pos THEN SortedSeq(data_items)
    ELSE IF u \in DOMAIN user_neg_items THEN SortedSeq(user_neg_items[u])
    ELSE << >>
CandidateItems(u, items, remove_known_pos) ==
    IF items.given THEN items.arr
    ELSE IF remove_known_pos THEN SortedSeq(user_neg_items[u])
    ELSE SortedSeq(data_items)

\* the exception get_prediction raises, "none" when it returns
PredictionError(u, items, remove_known_pos) ==
    IF ~items.given /\ remove_known_pos /\ u \notin DOMAIN user_neg_items
    THEN "KeyError"
    ELSE IF ~InBounds(u - 1, m) THEN "IndexError"
    ELSE LET cand == CandidateItems(u, items, remove_known_pos)
         IN  IF \E k \in 1..Len(cand) : ~InBounds(cand[k] - 1, n)
             THEN "IndexError"
             ELSE "none"

\* line 376: np.sum(user_embed * item_embeds, axis=1)
ScoresOf(u, cand) ==
    Array([k \in 1..Len(cand) |->
              Dot(user_factors[RowIndex(u - 1, m)],
                  item_factors[RowIndex(cand[k] - 1, n)])])

\* lines 378-379: zip(items[sorting], preds[sorting])
Zipped(cand, preds, order) ==
    Array([k \in 1..Len(cand) |-> <<cand[order[k]], preds[order[k]]>>])

SortedPredictions(cand, preds) == DictOf(Zipped(cand, preds, sorting(preds)))

\* user_factors after get_prediction has scored for the users us: user_embed
\* is a view of the user's row, and line 376 multiplies it into a new array
FactorsAfterPrediction_inplace(us) ==
    [r \in DOMAIN user_factors |->
        IF \E u \in us : InBounds(u - 1, m) /\ RowIndex(u - 1, m) = r
        THEN VecScale(Scale \div 2, user_factors[r])
        ELSE user_factors[r]]
FactorsAfterPrediction(us) == user_factors

\* lines 372-381: the scores of the items, best first
get_prediction_cached(u, items, remove_known_pos) ==
    IF ret.fn = "get_prediction" /\ ret.raised = "none" /\ ret.user = u
    THEN ret.value
    ELSE SortedPredictions(CandidateItems(u, items, remove_known_pos),
                           ScoresOf(u, CandidateItems(u, items, remove_known_pos)))
get_prediction(u, items, remove_known_pos) ==
    SortedPredictions(CandidateItems(u, items, remove_known_pos),
                      ScoresOf(u, CandidateItems(u, items, remove_known_pos)))

\* lines 410-415: the loop that appends the predictions until there are N
TakeUntilN_twice(predictions, len) ==
    IF len \in 1..Len(predictions)
    THEN SubSeq(predictions, 1, len) \o SubSeq(predictions, 1, len)
    ELSE predictions \o predictions
TakeUntilN(predictions, len) ==
    IF len \in 1..Len(predictions) THEN SubSeq(predictions, 1, len)
    ELSE predictions

\* lines 408-417
get_recommendations_all(u, len, remove_known_pos) ==
    get_prediction(u, NoItems, remove_known_pos)
get_recommendations(u, len, remove_known_pos) ==
    TakeUntilN(get_prediction(u, NoItems, remove_known_pos), len)

(***************************************************************************)
(* Evaluation: Precision@N over the users of relevant_items, and its mean. *)
(***************************************************************************)
\* np.intersect1d: the sorted common values, each once
intersect1d(a, b) == a \cap b

\* [val[0] for val in recommendations]
ItemsOf(recs) == {recs[k][1] : k \in 1..Len(recs)}

\* len(hits) / N, for N # 0
PrecisionAtN_perlist(recs, relevant, len) ==
    IF Len(recs) = 0 THEN 0
    ELSE RDiv(Cardinality(intersect1d(ItemsOf(recs), relevant)) * Scale, Len(recs))
PrecisionAtN(recs, relevant, len) ==
    RDiv(Cardinality(intersect1d(ItemsOf(recs), relevant)) * Scale, len)

\* the exception one pass of the loop of lines 472-477 raises for a user
EvaluationError(u, len) ==
    IF PredictionError(u, NoItems, TRUE) # "none"
    THEN PredictionError(u, NoItems, TRUE)
    ELSE IF len = 0 THEN "ZeroDivisionError"
    ELSE "none"

\* the users whose value enters the mean: "if val is not None"
MeanUsers_all(prec) == DOMAIN prec
MeanUsers(prec) == {u \in DOMAIN prec : prec[u] # -1}

\* np.mean of the values that are not None; nan for an empty list
mean(prec) ==
    LET us == SortedSeq(MeanUsers(prec))
        vals == [k \in 1..Len(us) |-> IF prec[us[k]] = -1 THEN 0 ELSE prec[us[k]]]
    IN  IF Len(us) = 0 THEN [state |-> "nan", value |-> 0]
        ELSE [state |-> "value", value |-> RDiv(SumTo(vals, Len(us)), Len(us))]

(***************************************************************************)
(* The cells after training: direct calls of get_prediction and            *)
(* get_recommendations, then the evaluation cells. They can be run once   *)
(* the training cell has returned or raised.                               *)
(***************************************************************************)
AtPrompt == pc \in {"trained", "error"}

\* the arrays a direct call of get_prediction is tried with
CallItems ==
    {NoItems} \cup {TheItems(<<i>>) : i \in Items}
              \cup {TheItems(<<i, j>>) : i, j \in {1, NItems}}

\* a run calls one function for one user and one value of the flag, any
\* number of times
FirstOrSameCall(fn, u, remove_known_pos) ==
    \/ ret.fn = "none"
    \/ (ret.fn = fn /\ ret.user = u /\ ret.remove_known_pos = remove_known_pos)

CallGetPrediction(u, items, remove_known_pos) ==
    /\ AtPrompt
    /\ FirstOrSameCall("get_prediction", u, remove_known_pos)
    /\ LET raised == PredictionError(u, items, remove_known_pos)
       IN  ret' = [fn |-> "get_prediction", user |-> u, items |-> items,
                   remove_known_pos |-> remove_known_pos, raised |-> raised,
                   value |-> IF raised = "none"
                             THEN get_prediction(u, items, remove_known_pos)
                             ELSE << >>]
    /\ user_factors' = FactorsAfterPrediction({u})
    /\ UNCHANGED <<data_users, data_items, ratings, item_factors,
                   user_pos_items, user_neg_items, epochs, learning_rate,
                   l2_decay, verbose, pc, epoch, step, random_index, user,
                   pos_item, neg_item, user_grad, pos_item_grad, neg_item_grad,
                   loss_trace, err, redrawn>>
    /\ UNCHANGED neg_items
    /\ UNCHANGED evalVars

CallGetRecommendations(u, len, remove_known_pos) ==
    /\ AtPrompt
    /\ FirstOrSameCall("get_recommendations", u, remove_known_pos)
    /\ LET raised == PredictionError(u, NoItems, remove_known_pos)
       IN  ret' = [fn |-> "get_recommendations", user |-> u, len |-> len,
                   remove_known_pos |-> remove_known_pos, raised |-> raised,
                   value |-> IF raised = "none"
                             THEN get_recommendations(u, len, remove_known_pos)
                             ELSE << >>]
    /\ user_factors' = FactorsAfterPrediction({u})
    /\ UNCHANGED <<data_users, data_items, ratings, item_factors,
                   user_pos_items, user_neg_items, epochs, learning_rate,
                   l2_decay, verbose, pc, epoch, step, random_index, user,
                   pos_item, neg_item, user_grad, pos_item_grad, neg_item_grad,
                   loss_trace, err, redrawn>>
    /\ UNCHANGED neg_items
    /\ UNCHANGED evalVars

\* the relevant-items mappings the evaluation is tried with
RelevantSets == {{1}, Items}
RelevantMaps == UNION {[U -> RelevantSets] : U \in SUBSET Users}

\* the cells of lines 447-477: N, relevant_items, and the loop over the users
\* of relevant_items (taken in ascending order), which stops at the first
\* user whose pass raises; a run goes from the training cell either to the
\* recommendation cells or to the evaluation cells
Evaluate(len, relevant) ==
    /\ AtPrompt
    /\ N = -1
    /\ ret.fn = "none"
    /\ N' = len
    /\ relevant_items' = relevant
    /\ LET users == DOMAIN relevant
           failing == {u \in users : EvaluationError(u, len) # "none"}
           done == {u \in users : \A f \in failing : u < f}
           keys == data_users \cup done
       IN  /\ prec_at_N' =
                 [u \in keys |->
                     IF u \in done
                     THEN PrecisionAtN(get_recommendations(u, len, TRUE),
                                       relevant[u], len)
                     ELSE -1]
           /\ ret' = [fn |-> "evaluate", user |-> 0,
                      raised |-> IF failing = {} THEN "none"
                                 ELSE EvaluationError(
                                          CHOOSE f \in failing :
                                              \A g \in failing : f <= g, len),
                      value |-> 0]
    /\ user_factors' = FactorsAfterPrediction(DOMAIN relevant)
    /\ UNCHANGED <<data_users, data_items, ratings, item_factors,
                   user_pos_items, user_neg_items, epochs, learning_rate,
                   l2_decay, verbose, pc, epoch, step, random_index, user,
                   pos_item, neg_item, user_grad, pos_item_grad, neg_item_grad,
                   neg_items,
                   loss_trace, err, redrawn, mean_prec>>

\* the cell of line 495
MeanPrecision ==
    /\ N # -1
    /\ mean_prec = NoMean
    /\ mean_prec' = mean(prec_at_N)
    /\ UNCHANGED <<data_users, data_items, ratings, user_factors, item_factors,
                   user_pos_items, user_neg_items, epochs, learning_rate,
                   l2_decay, verbose, pc, epoch, step, random_index, user,
                   pos_item, neg_item, user_grad, pos_item_grad, neg_item_grad,
                   neg_items,
                   loss_trace, err, ret, redrawn, N, relevant_items, prec_at_N>>

RankItemVals == {1000, 3000}

\* the training tables of these runs: one row, or user 1 with every item
RankTables ==
    {t \in DiagonalTables : Len(t) = 1} \cup {[k \in 1..NItems |-> <<1, k>>]}

InitRank ==
    /\ data_users = Users
    /\ data_items = Items
    /\ ratings \in RankTables
    /\ \E uv \in UserVals : user_factors = [r \in 0..(NUsers - 1) |-> Const(uv)]
    /\ \E iv \in [0..(NItems - 1) -> RankItemVals] :
           item_factors = [r \in 0..(NItems - 1) |-> Const(iv[r])]
    /\ epochs = 1
    /\ learning_rate = DefaultLearningRate
    /\ l2_decay = ZeroDecay
    /\ verbose = TRUE
    /\ InitCommon

NextRank ==
    \/ Next
    \/ \E u \in CallUsers, items \in CallItems, remove_known_pos \in BOOLEAN :
           CallGetPrediction(u, items, remove_known_pos)
    \/ \E u \in CallUsers, len \in 0..MaxN, remove_known_pos \in BOOLEAN :
           CallGetRecommendations(u, len, remove_known_pos)

SpecRank == InitRank /\ [][NextRank]_vars

NextEval ==
    \/ Next
    \/ \E len \in 0..MaxN, relevant \in RelevantMaps : Evaluate(len, relevant)
    \/ MeanPrecision

SpecEval == InitRank /\ [][NextEval]_vars

\* training, then the recommendation cells, then the evaluation cells
NextAll == NextRank \/ NextEval

SpecAll == InitRank /\ [][NextAll]_vars

(***************************************************************************)
(* Properties.                                                             *)
(***************************************************************************)
IndexBuilt == pc # "index"

\* the users with no row in the training table
NoInteraction(u) == \A k \in 1..Len(ratings) : ratings[k][1] # u

\* C1: once the index is built, every catalog user has a positive and a
\* negative set that are disjoint and together make up the item catalog.
C1_PositivesAndNegativesPartitionCatalog ==
    IndexBuilt =>
        \A u \in data_users :
            /\ u \in DOMAIN user_pos_items
            /\ u \in DOMAIN user_neg_items
            /\ user_pos_items[u] \cap user_neg_items[u] = {}
            /\ user_pos_items[u] \cup user_neg_items[u] = data_items

C1_Witness ==
    /\ IndexBuilt
    /\ \E u \in data_users : user_pos_items[u] # {} /\ user_neg_items[u] # {}

\* C2: a catalog user without any training interaction is in the index with
\* no positive item and with the whole item catalog as negatives.
C2_UserWithoutInteractionsIsRetained ==
    IndexBuilt =>
        \A u \in data_users :
            NoInteraction(u) =>
                /\ u \in DOMAIN user_pos_items
                /\ u \in DOMAIN user_neg_items
                /\ user_pos_items[u] = {}
                /\ user_neg_items[u] = data_items

C2_Witness ==
    /\ IndexBuilt
    /\ \E u \in data_users : NoInteraction(u)
    /\ \E u \in data_users : ~NoInteraction(u)

\* C3: every item a call of the sampler returns is one of the user's
\* negatives and none of the user's positives.
C3_SampleIsANegative ==
    (ret.fn = "negative_sampling" /\ ret.raised = "none") =>
        /\ ret.value \in user_neg_items[ret.user]
        /\ ret.value \notin user_pos_items[ret.user]

C3_Witness ==
    /\ ret.fn = "negative_sampling"
    /\ ret.raised = "none"
    /\ user_pos_items[ret.user] # {}
    /\ ret.value \in data_items

\* C4: a direct call of the sampler for a user whose positives are the whole
\* catalog raises the empty-pool error and returns no item.
C4_EmptyPoolRaises ==
    (/\ ret.fn = "negative_sampling"
     /\ ret.user \in DOMAIN user_pos_items
     /\ user_pos_items[ret.user] = data_items) =>
        /\ ret.raised = EmptyNegativePoolError
        /\ ret.value \notin data_items

C4_Witness ==
    /\ ret.fn = "negative_sampling"
    /\ ret.user \in DOMAIN user_pos_items
    /\ user_pos_items[ret.user] = data_items
    /\ user_neg_items[ret.user] = {}
    /\ ret.raised = EmptyNegativePoolError

\* C5: a user whose negative pool is empty is never drawn as the user of a
\* training pair, so no training step stops on an empty pool.
C5_EmptyPoolUserNeverDrawn ==
    /\ user # 0 => user_neg_items[user] # {}
    /\ err # EmptyNegativePoolError

\* C6: the user of a drawn training pair always has a positive item.
C6_DrawnUserHasAPositive ==
    user # 0 => (user \in DOMAIN user_pos_items /\ user_pos_items[user] # {})

C6_Witness ==
    /\ pc = "update"
    /\ \E u \in data_users : user_pos_items[u] = {}

\* the rows the drawn triple reads
TripleW == user_factors[user - 1]
TripleHi == item_factors[pos_item - 1]
TripleHj == item_factors[neg_item - 1]
TripleG == sigmoid(Dot(TripleW, TripleHi) - Dot(TripleW, TripleHj)) - Scale

GradientFormula ==
    \A f \in 1..d :
        /\ user_grad[f] = Mul(TripleG, TripleHi[f] - TripleHj[f])
                              + Mul(l2_decay.user, TripleW[f])
        /\ pos_item_grad[f] = Mul(TripleG, TripleW[f])
                                  + Mul(l2_decay.pos, TripleHi[f])
        /\ neg_item_grad[f] = -Mul(TripleG, TripleW[f])
                                  + Mul(l2_decay.neg, TripleHj[f])

\* Scenario A: every factor 0.1, learning rate 0.1, no decay, triple (1, 1, 2)
ScenarioABeforeUpdate ==
    /\ pc = "update"
    /\ epoch = 0
    /\ step = 0
    /\ user = 1
    /\ pos_item = 1
    /\ neg_item = 2
    /\ \A r \in 0..1 : user_factors[r] = Const(Scale \div 10)
    /\ \A r \in 0..1 : item_factors[r] = Const(Scale \div 10)
    /\ learning_rate = Scale \div 10
    /\ l2_decay = ZeroDecay

ScenarioAAfterUpdate ==
    /\ user_factors[0] = Const(Scale \div 10)
    /\ user_factors[1] = Const(Scale \div 10)
    /\ item_factors[0] = Const((105 * Scale) \div 1000)
    /\ item_factors[1] = Const((95 * Scale) \div 1000)

C8_ItemGradientsAreOpposite ==
    (pc = "update" /\ l2_decay = ZeroDecay) =>
        \A f \in 1..d : pos_item_grad[f] = -neg_item_grad[f]

C8_Witness ==
    /\ pc = "update"
    /\ l2_decay = ZeroDecay
    /\ \E f \in 1..d : pos_item_grad[f] # 0

\* C9: the gradient call yields three vectors of dimension d and leaves both
\* factor matrices as they were; the matrices change only in the update that
\* follows it.
C9_GradientCallLeavesFactors ==
    /\ [][(pc = "train" /\ pc' = "update") =>
            /\ user_factors' = user_factors
            /\ item_factors' = item_factors
            /\ Len(user_grad') = d
            /\ Len(pos_item_grad') = d
            /\ Len(neg_item_grad') = d]_vars
    /\ [][(user_factors' # user_factors \/ item_factors' # item_factors) =>
            (pc = "update" /\ pc' # "update")]_vars

C9_Witness ==
    /\ pc = "update"
    /\ \E f \in 1..d : user_grad[f] # 0
    /\ \E f \in 1..d : pos_item_grad[f] # 0

\* C10: an epoch ends only after as many steps as the table has rows, and at
\* every step each row of the table can be drawn, whatever was drawn before.
C10_EpochStepsAndIndependentDraws ==
    /\ [](pc = "train" =>
            /\ step < n_ratings
            /\ \A i \in 0..(n_ratings - 1) : CanDraw(i))
    /\ [][(pc = "train" /\ pc' # "train") =>
            random_index' \in 0..(n_ratings - 1)]_vars
    /\ [][epoch' # epoch => (epoch' = epoch + 1 /\ step = n_ratings)]_vars
    /\ [][step' # step =>
            \/ (pc = "update" /\ step' = step + 1 /\ epoch' = epoch)
            \/ (step = n_ratings /\ step' = 0 /\ epoch' = epoch + 1)]_vars

C10_Witness ==
    /\ pc = "diag"
    /\ step = n_ratings
    /\ n_ratings >= 2
    /\ redrawn

\* C11: training stops only in the exhausted state, after exactly the
\* configured number of epochs: it never stops on an error, and once the loops
\* are left the epoch counter equals epochs.
C11_TrainingEndsExhausted ==
    /\ pc # "error"
    /\ pc = "trained" => (epoch = epochs /\ err = "none")

\* C12 as stated: after e completed epochs the loss trace holds exactly e
\* values, and a value once appended is never changed or removed.
C12_OneLossValuePerEpoch ==
    /\ [](Len(loss_trace) = epoch)
    /\ [][/\ Len(loss_trace') >= Len(loss_trace)
          /\ \A k \in 1..Len(loss_trace) : loss_trace'[k] = loss_trace[k]]_vars

\* C12 as amended: with verbose set the loss trace holds one value per
\* completed epoch, with verbose unset it stays empty; in both cases a value
\* once appended is never changed or removed.
C12_OneLossValuePerVerboseEpoch ==
    /\ [](Len(loss_trace) = IF verbose THEN epoch ELSE 0)
    /\ [][/\ Len(loss_trace') >= Len(loss_trace)
          /\ \A k \in 1..Len(loss_trace) : loss_trace'[k] = loss_trace[k]]_vars

C12_Witness ==
    /\ verbose
    /\ epoch >= 2
    /\ Len(loss_trace) = epoch

\* C13: the steps run one after the other on the same matrices: a step
\* computes its gradients from the rows as the step before left them, its
\* update starts from those rows, and nothing changes a row in between; so
\* two steps on the same user or item both leave their mark.
C13_StepsAreSequential ==
    /\ [][(pc = "train" /\ pc' = "update") =>
            LET grads == compute_gradients(
                             user_factors[RowIndex(user' - 1, m)],
                             item_factors[RowIndex(pos_item' - 1, n)],
                             item_factors[RowIndex(neg_item' - 1, n)],
                             l2_decay)
            IN  /\ user_grad' = grads.user
                /\ pos_item_grad' = grads.pos
                /\ neg_item_grad' = grads.neg]_vars
    /\ [][pc = "update" =>
            /\ user_factors'[RowIndex(user - 1, m)] =
                   VecSub(user_factors[RowIndex(user - 1, m)],
                          VecScale(learning_rate, user_grad))
            /\ item_factors'[RowIndex(pos_item - 1, n)] =
                   VecSub(item_factors[RowIndex(pos_item - 1, n)],
                          VecScale(learning_rate, pos_item_grad))
            /\ item_factors'[RowIndex(neg_item - 1, n)] =
                   VecSub(item_factors[RowIndex(neg_item - 1, n)],
                          VecScale(learning_rate, neg_item_grad))]_vars
    /\ [][pc # "update" =>
            (user_factors' = user_factors /\ item_factors' = item_factors)]_vars

\* a second step in a row on the same pair, whose user row the first step moved
C13_Witness ==
    /\ pc = "update"
    /\ redrawn
    /\ user_factors[RowIndex(user - 1, m)] #
           InitFactors(seed, NUsers, 0)[RowIndex(user - 1, m)]
    /\ item_factors[RowIndex(pos_item - 1, n)] #
           InitFactors(seed, NItems, NUsers * d)[RowIndex(pos_item - 1, n)]
    /\ \E f \in 1..d : VecScale(learning_rate, user_grad)[f] # 0

\* the items a call of get_prediction was asked to score
AskedItems(call) ==
    IF call.items.given THEN {call.items.arr[k] : k \in 1..Len(call.items.arr)}
    ELSE IF call.remove_known_pos THEN user_neg_items[call.user]
    ELSE data_items

\* C14: a call of get_prediction changes neither the factor matrices nor the
\* index, and what it returns is fixed by its arguments and the matrices:
\* the asked items, each with the dot product of the user's and the item's
\* rows; so a call repeated with the same arguments returns the same value.
C14_ScoringIsPure ==
    /\ [][(ret' # ret /\ ret'.fn = "get_prediction") =>
            /\ user_factors' = user_factors
            /\ item_factors' = item_factors
            /\ user_pos_items' = user_pos_items
            /\ user_neg_items' = user_neg_items
            /\ ret'.raised = "none" =>
                  /\ ItemsOf(ret'.value) = AskedItems(ret')
                  /\ \A k \in 1..Len(ret'.value) :
                        ret'.value[k][2] =
                            Dot(user_factors[RowIndex(ret'.user - 1, m)],
                                item_factors[RowIndex(ret'.value[k][1] - 1, n)])]_vars
    /\ [][(/\ ret.fn = "get_prediction"
           /\ ret'.fn = "get_prediction"
           /\ ret'.user = ret.user
           /\ ret'.items = ret.items
           /\ ret'.remove_known_pos = ret.remove_known_pos) =>
            ret'.value = ret.value]_vars

C14_Witness ==
    /\ pc = "trained"
    /\ ret.fn = "get_prediction"
    /\ ret.raised = "none"
    /\ ret.items.given
    /\ Len(ret.value) >= 2
    /\ ret.value[1][2] # ret.value[2][2]

\* the candidates of a call of get_recommendations
CandidatesOf(call) ==
    IF call.remove_known_pos THEN user_neg_items[call.user] ELSE data_items

Min(a, b) == IF a <= b THEN a ELSE b

\* C15: a call of get_recommendations that returns, returns exactly
\* min(N, |candidates|) entries, for every N >= 0.
C15_ReturnsMinOfNAndCandidates ==
    (ret.fn = "get_recommendations" /\ ret.raised = "none") =>
        Len(ret.value) = Min(ret.len, Cardinality(CandidatesOf(ret)))

\* C16: the list a call of get_recommendations returns holds no item twice.
C16_NoItemTwice ==
    (ret.fn = "get_recommendations" /\ ret.raised = "none") =>
        \A j, k \in 1..Len(ret.value) :
            j # k => ret.value[j][1] # ret.value[k][1]

C16_Witness ==
    /\ ret.fn = "get_recommendations"
    /\ ret.raised = "none"
    /\ Len(ret.value) >= 2

\* C17: in the list a call of get_recommendations returns the scores never
\* increase from one entry to the next, and no candidate left out of the list
\* scores higher than the last entry.
C17_ScoresNeverIncrease ==
    (ret.fn = "get_recommendations" /\ ret.raised = "none") =>
        /\ \A k \in 1..(Len(ret.value) - 1) :
                ret.value[k][2] >= ret.value[k + 1][2]
        /\ \A i \in CandidatesOf(ret) \ ItemsOf(ret.value) :
                Dot(user_factors[RowIndex(ret.user - 1, m)],
                    item_factors[RowIndex(i - 1, n)])
                    <= ret.value[Len(ret.value)][2]

C17_Witness ==
    /\ ret.fn = "get_recommendations"
    /\ ret.raised = "none"
    /\ Len(ret.value) >= 1
    /\ \E i \in CandidatesOf(ret) \ ItemsOf(ret.value) :
           Dot(user_factors[RowIndex(ret.user - 1, m)],
               item_factors[RowIndex(i - 1, n)])
               < ret.value[Len(ret.value)][2]

\* C18: with known positives excluded every returned item is one of the
\* user's negatives and none is a positive of the user; without the
\* exclusion the candidates are the whole catalog, so a list as long as the
\* catalog holds every item.
C18_CandidatesFollowTheFlag ==
    (ret.fn = "get_recommendations" /\ ret.raised = "none") =>
        IF ret.remove_known_pos
        THEN /\ ItemsOf(ret.value) \subseteq user_neg_items[ret.user]
             /\ ItemsOf(ret.value) \cap user_pos_items[ret.user] = {}
             /\ (ret.len >= Cardinality(user_neg_items[ret.user]) =>
                    ItemsOf(ret.value) = user_neg_items[ret.user])
        ELSE /\ ItemsOf(ret.value) \subseteq data_items
             /\ (ret.len >= Cardinality(data_items) =>
                    ItemsOf(ret.value) = data_items)

C18_Witness ==
    /\ ret.fn = "get_recommendations"
    /\ ret.raised = "none"
    /\ ret.remove_known_pos
    /\ user_pos_items[ret.user] # {}
    /\ ret.value # << >>

\* the evaluation loop has run to its end
Evaluated == N # -1 /\ ret.fn = "evaluate" /\ ret.raised = "none"

\* the number of items of u's list that are relevant for u
Hits(u) ==
    Cardinality(ItemsOf(get_recommendations(u, N, TRUE)) \cap relevant_items[u])

\* C19: the Precision@N of an evaluated user is the number of recommended
\* items that are relevant for the user divided by N, whatever the length of
\* the list; ten items of which three are relevant give 0.3 at N = 10.
C19_PrecisionIsHitsOverN ==
    /\ Evaluated =>
           \A u \in DOMAIN relevant_items :
               prec_at_N[u] = RDiv(Hits(u) * Scale, N)
    /\ PrecisionAtN([k \in 1..10 |-> <<k, 0>>], {2, 5, 9, 11}, 10)
           = (3 * Scale) \div 10

\* an evaluated user whose list is shorter than N and holds a relevant item
C19_Witness ==
    /\ Evaluated
    /\ \E u \in DOMAIN relevant_items :
           /\ Hits(u) >= 1
           /\ Len(get_recommendations(u, N, TRUE)) < N
           /\ prec_at_N[u] < Scale

\* C20: the mean is the sum of the Precision@N of the users of
\* relevant_items divided by their number; a catalog user outside
\* relevant_items keeps no value and does not enter the mean.
C20_MeanOverEvaluatedUsers ==
    (Evaluated /\ mean_prec # NoMean) =>
        LET us == SortedSeq(DOMAIN relevant_items)
            vals == [k \in 1..Len(us) |-> prec_at_N[us[k]]]
        IN  /\ \A u \in data_users \ DOMAIN relevant_items : prec_at_N[u] = -1
            /\ IF Len(us) = 0 THEN mean_prec.state = "nan"
               ELSE /\ mean_prec.state = "value"
                    /\ mean_prec.value = RDiv(SumTo(vals, Len(us)), Len(us))

\* a mean above zero with a catalog user outside relevant_items
C20_Witness ==
    /\ Evaluated
    /\ mean_prec.state = "value"
    /\ mean_prec.value > 0
    /\ data_users \ DOMAIN relevant_items # {}

C22_UnknownIdentifierRaises ==
    (/\ ret.fn \in {"get_prediction", "get_recommendations"}
     /\ ret.user \notin data_users) =>
        ret.raised # "none"

\* C23: with an epoch count or a learning rate that is not positive, training
\* is rejected: no step runs and the training cell does not return.
C23_InvalidConfigurationRejected ==
    (epochs <= 0 \/ learning_rate <= 0) =>
        pc \notin {"update", "diag", "trained"}

\* C24: the triples of a run are fixed by the configuration and the seed: at
\* every step the state of the run leaves one row that can be drawn and one
\* negative item that can be sampled for it.
C24_SameSeedSameTriples ==
    pc = "train" =>
        \A i, j \in 0..(n_ratings - 1) :
            (CanDraw(i) /\ CanDraw(j)) =>
                /\ i = j
                /\ Cardinality(negative_sampling(DrawnPair(i)[1])) <= 1

\* C25: the update of a step leaves every user row but the user's and every
\* item row but the two items' as it was.
C25_StepChangesThreeRows ==
    [][pc = "update" =>
        /\ DOMAIN user_factors' = DOMAIN user_factors
        /\ DOMAIN item_factors' = DOMAIN item_factors
        /\ \A r \in DOMAIN user_factors \ {RowIndex(user - 1, m)} :
               user_factors'[r] = user_factors[r]
        /\ \A r \in DOMAIN item_factors \
                     {RowIndex(pos_item - 1, n), RowIndex(neg_item - 1, n)} :
               item_factors'[r] = item_factors[r]]_vars

\* after the first step: three rows moved, another user row and another item
\* row are still the initial ones
C25_Witness ==
    /\ epoch = 0
    /\ step = 1
    /\ user_factors[RowIndex(user - 1, m)] #
           InitFactors(seed, NUsers, 0)[RowIndex(user - 1, m)]
    /\ item_factors[RowIndex(pos_item - 1, n)] #
           InitFactors(seed, NItems + 1, NUsers * d)[RowIndex(pos_item - 1, n)]
    /\ item_factors[RowIndex(neg_item - 1, n)] #
           InitFactors(seed, NItems + 1, NUsers * d)[RowIndex(neg_item - 1, n)]
    /\ \E r \in DOMAIN user_factors :
           /\ r # RowIndex(user - 1, m)
           /\ user_factors[r] = InitFactors(seed, NUsers, 0)[r]
    /\ \E r \in DOMAIN item_factors :
           /\ r \notin {RowIndex(pos_item - 1, n), RowIndex(neg_item - 1, n)}
           /\ item_factors[r] = InitFactors(seed, NItems + 1, NUsers * d)[r]

\* C26: the factor matrices change in the update of a training step and
\* nowhere else: not in the diagnostic loss, not in a call of get_prediction
\* or get_recommendations, not in the evaluation.
C26_OnlyTheUpdateWritesFactors ==
    /\ [][(user_factors' # user_factors \/ item_factors' # item_factors) =>
            pc = "update"]_vars
    /\ [][(pc = "diag" \/ ret' # ret \/ mean_prec' # mean_prec) =>
            (user_factors' = user_factors /\ item_factors' = item_factors)]_vars

\* the evaluation has run on matrices that training has moved
C26_Witness ==
    /\ pc = "trained"
    /\ Evaluated
    /\ DOMAIN relevant_items # {}
    /\ loss_trace # << >>
    /\ \E r \in DOMAIN user_factors : \E uv \in UserVals :
           user_factors[r] # Const(uv)

\* C27: once the index is built no step changes a positive set or a negative
\* set.
C27_IndexIsReadOnly ==
    [][pc # "index" =>
        (user_pos_items' = user_pos_items /\ user_neg_items' = user_neg_items)]_vars

\* a training step, the diagnostic loss and the evaluation have run
C27_Witness ==
    /\ pc = "trained"
    /\ neg_item # 0
    /\ loss_trace # << >>
    /\ Evaluated
    /\ \E u \in data_users : user_pos_items[u] # {} /\ user_neg_items[u] # {}

\* C28: a failure of the diagnostic loss (a window pair whose user has an
\* empty negative pool) does not stop training: after the diagnostic the loop
\* goes on to the next epoch, or ends because no epoch remains.
C28_DiagnosticFailureDoesNotStopTraining ==
    [][(/\ pc = "diag"
        /\ \E k \in 1..Len(samples) : user_neg_items[samples[k][1]] = {}) =>
            pc' = LoopEntry(epoch + 1)]_vars

\* C29: in the triple of every training step, and in every triple of the
\* diagnostic loss, the positive item is one of the user's positives and the
\* negative item one of the user's negatives, so the two differ.
C29_TriplesSplitPositivesAndNegatives ==
    /\ pc = "update" =>
           /\ pos_item \in user_pos_items[user]
           /\ neg_item \in user_neg_items[user]
           /\ neg_item # pos_item
    /\ neg_items # << >> =>
           \A k \in 1..Len(samples) :
               /\ samples[k][2] \in user_pos_items[samples[k][1]]
               /\ neg_items[k] \in user_neg_items[samples[k][1]]
               /\ neg_items[k] # samples[k][2]

\* training steps and a diagnostic loss over two rows have used triples
C29_Witness ==
    /\ pc = "trained"
    /\ Len(loss_trace) >= 1
    /\ Len(neg_items) >= 2
    /\ pos_item \in user_pos_items[user]
    /\ neg_item \in user_neg_items[user]

\* C30: after an evaluation with N >= 1, no user has more hits than N, every
\* Precision@N lies between 0 and 1, and so does the mean over the evaluated
\* users.
C30_PrecisionWithinUnitInterval ==
    (Evaluated /\ N >= 1) =>
        /\ \A u \in DOMAIN relevant_items :
               /\ Hits(u) <= N
               /\ prec_at_N[u] >= 0
               /\ prec_at_N[u] <= Scale
        /\ mean_prec.state = "value" =>
               (mean_prec.value >= 0 /\ mean_prec.value <= Scale)

\* a user with as many hits as N, next to a user with fewer, and their mean
C30_Witness ==
    /\ Evaluated
    /\ N >= 1
    /\ mean_prec.state = "value"
    /\ \E u, v \in DOMAIN relevant_items :
           /\ Hits(u) = N
           /\ prec_at_N[u] = Scale
           /\ prec_at_N[v] < Scale

====
